---- MODULE Spec2Model ----
(***************************************************************************)
(* pkgproxy: a caching proxy for pacman packages.                          *)
(*                                                                         *)
(* The model follows cmd/pkgproxy.go: every HTTP request is a goroutine    *)
(* running handleRequest; the shared state is the registry of in-flight    *)
(* downloads (util.Cache, reached only through LockedDo), the cache        *)
(* directory, and the cacheEntry objects (reference count, Started and     *)
(* Complete channels, the append-only file and its descriptor offset).     *)
(*                                                                         *)
(* The file system is modelled with inodes: a path of the cache directory  *)
(* names an inode, an open descriptor keeps its inode whatever happens to  *)
(* the path (rename, remove), and O_APPEND writes go to the end of the     *)
(* inode's data.                                                           *)
(***************************************************************************)
EXTENDS Integers, Sequences, FiniteSets, TLC

\* Number of requests the proxy receives in one run.
NReq == 3

\* Number of bytes of every upstream body (read one byte per Read call).
BodyLen == 2

Reqs == 1..NReq

\* The nil pointer / the absent file.
None == 0

\* gSettings.CacheDir
CacheDir == "/c"

\* File names clients ask for (the fourth segment of the request path).
FileNames == {"pkg", ".pkg", "x.db", "x.db.sig"}

\* Status codes the upstream answers with.
UpstreamStatus == {200, 204, 404}

\* strings.HasSuffix
HasSuffix(s, suffix) ==
    /\ Len(s) >= Len(suffix)
    /\ SubSeq(s, Len(s) - Len(suffix) + 1, Len(s)) = suffix

\* A test of the first suffix only.
IsDatabaseFile(f) == HasSuffix(f, ".db")

\* The first case of handleRequest's switch.
IsDatabase(f) == HasSuffix(f, ".db") \/ HasSuffix(f, ".db.sig")

\* path.Join(dir, elem) for an elem without a slash
Join(dir, elem) == dir \o "/" \o elem

GetCachePathName(f) == Join(CacheDir, f)

GetCacheTempPathName(f) == Join(CacheDir, "." \o f)

Paths == {GetCachePathName(f) : f \in FileNames} \cup {GetCacheTempPathName(f) : f \in FileNames}

\* An inode is named after the request that created it; OldInode is a file
\* found in a cache directory kept from an earlier run (-keep-cache).
OldInode == NReq + 1

Inodes == 1..(NReq + 1)

\* The body the upstream serves for a file: distinct bytes for distinct
\* files and offsets.
Body(f) == [i \in 1..BodyLen |-> <<f, i>>]

\* The headers the upstream sends for a file (headersToForward).
Headers(f) == "H:" \o f

NoHeaders == ""

VARIABLES
    rq,     \* rq[r]: the goroutine of request r (its request struct, its ResponseWriter, its locals)
    cache,  \* sharedState: file name -> entry (None: no key)
    ent,    \* the cacheEntry objects, named after the request that created them
    fs,     \* the cache directory: path -> inode (None: no such file)
    data,   \* the bytes of every inode
    hreq,   \* handler: the URL of one request, its parsed form, its upstream URL
    writer, \* a PerfectWriter, its destination and what its callers were told
    legacy, \* the legacy handler (the version before the rewrite): MutexMap and its goroutines
    lockedDo \* sharedState's mutex, and the position of every request around its two LockedDo calls

\* The parts of the code exercised on their own: each has its own
\* specification below, and is left alone by the steps of the proxy.
units == <<hreq, writer, legacy, lockedDo>>

\* A part that is not exercised.
Unused == "unused"

vars == <<rq, cache, ent, fs, data, hreq, writer, legacy, lockedDo>>

\* A request that has not arrived yet.
IdleReq ==
    [pc |-> "idle", File |-> "", FileStatus |-> "none", CacheEntry |-> None,
     fetched |-> 0, status |-> 0, header |-> NoHeaders, delivered |-> <<>>,
     nread |-> 0, written |-> <<>>, pwErr |-> FALSE, err |-> FALSE, fileSize |-> 0, log |-> "",
     joined |-> 0]

\* An entry that was never created.
NoEntry ==
    [RefCount |-> 0, Started |-> FALSE, Complete |-> FALSE, File |-> None,
     pos |-> 0, closed |-> FALSE, HTTPInfo |-> NoHeaders]

\* main: the cache directory is emptied at startup, or kept with -keep-cache;
\* a kept directory may hold a database file cached by an earlier version.
Init ==
    /\ rq = [r \in Reqs |-> IdleReq]
    /\ cache = [f \in FileNames |-> None]
    /\ ent = [e \in Reqs |-> NoEntry]
    /\ \E keep \in BOOLEAN :
          fs = [p \in Paths |-> IF keep /\ p = GetCachePathName("x.db") THEN OldInode ELSE None]
    /\ data = [i \in Inodes |-> IF i = OldInode THEN <<<<"old", 1>>>> ELSE <<>>]
    /\ hreq = Unused /\ writer = Unused /\ legacy = Unused /\ lockedDo = Unused

(***************************************************************************)
(* handleRequest, first LockedDo: the classification.  The whole closure   *)
(* runs with the registry mutex held, so it is one step.                   *)
(***************************************************************************)

\* os.Stat(path): nil, ErrNotExist, or another error (ioFails).
Stat(path, ioFails) ==
    IF ioFails THEN "EIO" ELSE IF fs[path] = None THEN "ENOENT" ELSE "nil"

\* A switch that tests the result of os.Stat before the suffixes.
ClassifyStatFirst(f, statErr, isInDownload) ==
    IF statErr = "nil" THEN "cached"
    ELSE IF IsDatabase(f) THEN "noCaching"
    ELSE IF statErr = "ENOENT" THEN (IF isInDownload THEN "inDownload" ELSE "missing")
    ELSE "error"

\* The switch of the closure: the status a request gets from its file name,
\* the result of os.Stat and the registry lookup; "error" is the default case.
Classify(f, statErr, isInDownload) ==
    IF IsDatabase(f) THEN "noCaching"
    ELSE IF statErr = "ENOENT" THEN (IF isInDownload THEN "inDownload" ELSE "missing")
    ELSE IF statErr = "nil" THEN "cached"
    ELSE "error"

\* A lookup that never finds the key (the check-then-act race the lock
\* prevents: the entry another request has just inserted is not seen).
LookupStale(f) == None

\* entry, isInDownload = cache[req.File]
Lookup(f) == cache[f]

\* The status request r gets for file f in the current state.
StatusOf(f, ioFails) ==
    Classify(f, Stat(GetCachePathName(f), ioFails), Lookup(f) # None)

\* A request may arrive once the requests before it have (requests are
\* interchangeable, so they are numbered in the order of their classification).
MayArrive(r) ==
    /\ rq[r].pc = "idle"
    /\ \A q \in Reqs : q < r => rq[q].pc # "idle"

\* case .db / .db.sig: fileStatusNoCaching, no entry.
ClassifyNoCaching(r) ==
    /\ MayArrive(r)
    /\ \E f \in FileNames, ioFails \in BOOLEAN :
          /\ StatusOf(f, ioFails) = "noCaching"
          /\ rq' = [rq EXCEPT ![r].File = f, ![r].FileStatus = "noCaching", ![r].pc = "fetch"]
    /\ UNCHANGED <<cache, ent, fs, data, units>>

\* case err == nil: fileStatusCached, no entry.
ClassifyCached(r) ==
    /\ MayArrive(r)
    /\ \E f \in FileNames :
          /\ StatusOf(f, FALSE) = "cached"
          /\ rq' = [rq EXCEPT ![r].File = f, ![r].FileStatus = "cached", ![r].pc = "serve"]
    /\ UNCHANGED <<cache, ent, fs, data, units>>

\* The file is in download: entry.RefCount++, fileStatusInDownload.  (joined
\* remembers, for the properties, how many bytes the primary had written.)
ClassifyInDownload(r) ==
    /\ MayArrive(r)
    /\ \E f \in FileNames :
          /\ StatusOf(f, FALSE) = "inDownload"
          /\ rq' = [rq EXCEPT ![r].File = f, ![r].FileStatus = "inDownload",
                               ![r].CacheEntry = Lookup(f), ![r].pc = "wait",
                               ![r].joined = Len(rq[Lookup(f)].written)]
          /\ ent' = [ent EXCEPT ![Lookup(f)].RefCount = @ + 1]
    /\ UNCHANGED <<cache, fs, data, units>>

\* newCacheEntryFromRequest: os.OpenFile(temp, O_CREATE|O_RDWR|O_APPEND): the
\* file at the temporary path is opened as it is, or created empty.
NewEntryInode(r, f) ==
    IF fs[GetCacheTempPathName(f)] = None THEN r ELSE fs[GetCacheTempPathName(f)]

newCacheEntryFromRequest(r, f) ==
    [RefCount |-> 1, Started |-> FALSE, Complete |-> FALSE, File |-> NewEntryInode(r, f),
     pos |-> 0, closed |-> FALSE, HTTPInfo |-> NoHeaders]

\* The file is not in download: a new entry, cache[req.File] = entry,
\* fileStatusMissing.
ClassifyMissing(r) ==
    /\ MayArrive(r)
    /\ \E f \in FileNames :
          /\ StatusOf(f, FALSE) = "missing"
          /\ rq' = [rq EXCEPT ![r].File = f, ![r].FileStatus = "missing",
                               ![r].CacheEntry = r, ![r].pc = "fetch"]
          /\ ent' = [ent EXCEPT ![r] = newCacheEntryFromRequest(r, f)]
          /\ fs' = [fs EXCEPT ![GetCacheTempPathName(f)] = NewEntryInode(r, f)]
          /\ cache' = [cache EXCEPT ![f] = r]
    /\ UNCHANGED <<data, units>>

\* "unable to stat cached file" / "unable to create cache file": LockedDo
\* returns the error, handleRequest logs it and returns.
ClassifyError(r) ==
    /\ MayArrive(r)
    /\ \E f \in FileNames, statFails \in BOOLEAN :
          /\ StatusOf(f, statFails) \in {"error", "missing"}
          /\ rq' = [rq EXCEPT ![r].File = f, ![r].log = "cacheError", ![r].pc = "done"]
    /\ UNCHANGED <<cache, ent, fs, data, units>>

\* Where a handler goes when it returns: the deferred cacheCleaner runs if
\* the request holds an entry.
Return(r) == IF rq[r].CacheEntry # None THEN "cleanup" ELSE "done"

(***************************************************************************)
(* fileHandlerMissingOrUncacheable                                         *)
(***************************************************************************)

\* http.Get fails: 500 to the client, return.
FetchTransportError(r) ==
    /\ rq[r].pc = "fetch"
    /\ rq' = [rq EXCEPT ![r].fetched = @ + 1, ![r].status = 500,
                         ![r].log = "queryFailed", ![r].pc = Return(r)]
    /\ UNCHANGED <<cache, ent, fs, data, units>>

\* resp.StatusCode != http.StatusOK: the status is mirrored, return.
FetchErrorStatus(r) ==
    /\ rq[r].pc = "fetch"
    /\ \E code \in UpstreamStatus :
          /\ code # 200
          /\ rq' = [rq EXCEPT ![r].fetched = @ + 1, ![r].status = code,
                               ![r].log = "hostResponded", ![r].pc = Return(r)]
    /\ UNCHANGED <<cache, ent, fs, data, units>>

\* Status 200: the headers to forward are set on the response; for a cached
\* download they are cloned into the entry (HTTPInfo).
FetchOK(r) ==
    /\ rq[r].pc = "fetch"
    /\ 200 \in UpstreamStatus
    /\ rq' = [rq EXCEPT ![r].fetched = @ + 1, ![r].header = Headers(rq[r].File),
                         ![r].pc = IF rq[r].FileStatus = "noCaching" THEN "copyNC" ELSE "start"]
    /\ ent' = IF rq[r].FileStatus = "noCaching" THEN ent
              ELSE [ent EXCEPT ![rq[r].CacheEntry].HTTPInfo = Headers(rq[r].File)]
    /\ UNCHANGED <<cache, fs, data, units>>

\* io.Copy(w, resp.Body) of an uncacheable file: n bytes reach the client
\* before the body or the client fails (n = BodyLen, ok: the whole body).
CopyUncacheable(r) ==
    /\ rq[r].pc = "copyNC"
    /\ \E n \in 0..BodyLen, ok \in BOOLEAN :
          /\ ok => n = BodyLen
          /\ rq' = [rq EXCEPT ![r].status = 200,
                               ![r].delivered = SubSeq(Body(rq[r].File), 1, n),
                               ![r].nread = n, ![r].err = ~ok,
                               ![r].log = IF ok THEN "uncacheableServed" ELSE "uncacheableNotServed",
                               ![r].pc = Return(r)]
    /\ UNCHANGED <<cache, ent, fs, data, units>>

\* close(req.CacheEntry.Started)
CloseStarted(r) ==
    /\ rq[r].pc = "start"
    /\ ent' = [ent EXCEPT ![rq[r].CacheEntry].Started = TRUE]
    /\ rq' = [rq EXCEPT ![r].pc = "copy"]
    /\ UNCHANGED <<cache, fs, data, units>>

\* A wrapper that hands the destination's error to its caller, as a plain
\* io.Writer in the MultiWriter would.
PlainWrite(err, fails) ==
    [err |-> err \/ fails, wrote |-> ~err /\ ~fails, ret |-> err \/ fails]

\* PerfectWriter.Write of one chunk, the writer having error `err` so far and
\* the destination failing this write or not: the error it keeps, whether the
\* chunk reached the destination, and the error it returns (never one).
PerfectWrite(err, fails) ==
    [err |-> err \/ fails, wrote |-> ~err /\ ~fails, ret |-> FALSE]

\* One round of io.Copy(io.MultiWriter(File, pw), resp.Body) in which the
\* body yields a byte and the file takes it: the byte is appended to the
\* entry's inode (O_APPEND), the descriptor's offset moves to the end, then
\* the byte goes to the PerfectWriter.
CopyByte(r) ==
    /\ rq[r].pc = "copy"
    /\ rq[r].nread < BodyLen
    /\ ~ent[rq[r].CacheEntry].closed
    /\ \E clientFails \in BOOLEAN :
          LET e  == rq[r].CacheEntry
              b  == Body(rq[r].File)[rq[r].nread + 1]
              pw == PerfectWrite(rq[r].pwErr, clientFails)
          IN  /\ data' = [data EXCEPT ![ent[e].File] = Append(@, b)]
              /\ ent' = [ent EXCEPT ![e].pos = Len(data[ent[e].File]) + 1]
              /\ rq' = [rq EXCEPT ![r].nread = @ + 1, ![r].status = 200,
                                   ![r].written = Append(@, b),
                                   ![r].pwErr = pw.err,
                                   ![r].delivered = IF pw.wrote THEN Append(@, b) ELSE @,
                                   ![r].err = pw.ret,
                                   ![r].log = IF pw.ret THEN "cachingFailed" ELSE @,
                                   ![r].pc = IF pw.ret THEN Return(r) ELSE "copy"]
    /\ UNCHANGED <<cache, fs, units>>

\* A round in which the write to the file fails: MultiWriter returns the
\* error before it reaches the PerfectWriter, io.Copy stops.
CopyFileError(r) ==
    /\ rq[r].pc = "copy"
    /\ rq[r].nread < BodyLen
    /\ rq' = [rq EXCEPT ![r].nread = @ + 1, ![r].err = TRUE,
                         ![r].log = "cachingFailed", ![r].pc = Return(r)]
    /\ UNCHANGED <<cache, ent, fs, data, units>>

\* The read of the body fails (the upstream breaks off): io.Copy stops.
CopyReadError(r) ==
    /\ rq[r].pc = "copy"
    /\ rq' = [rq EXCEPT ![r].err = TRUE, ![r].log = "cachingFailed", ![r].pc = Return(r)]
    /\ UNCHANGED <<cache, ent, fs, data, units>>

\* os.Rename(old, new): whether it succeeds.
RenameOK(old, ioFails) == ~ioFails /\ fs[old] # None

\* The directory after os.Rename(old, new).
Rename(old, new, ioFails) ==
    IF RenameOK(old, ioFails) THEN [fs EXCEPT ![new] = fs[old], ![old] = None] ELSE fs

\* The body ends (io.EOF): io.Copy returns nil, renameTempFile moves the
\* temporary file to the final path, the outcome is logged.
CopyEOF(r) ==
    /\ rq[r].pc = "copy"
    /\ rq[r].nread = BodyLen
    /\ \E ioFails \in BOOLEAN :
          LET old == GetCacheTempPathName(rq[r].File)
              new == GetCachePathName(rq[r].File)
              ok  == RenameOK(old, ioFails)
          IN  /\ fs' = Rename(old, new, ioFails)
              /\ rq' = [rq EXCEPT ![r].status = 200, ![r].err = ~ok,
                                   ![r].log = IF ~ok THEN "cachingFailed"
                                              ELSE IF rq[r].pwErr THEN "cachedNotServed"
                                              ELSE "cachedServed",
                                   ![r].pc = Return(r)]
    /\ UNCHANGED <<cache, ent, data, units>>

(***************************************************************************)
(* fileHandlerInDownload                                                   *)
(***************************************************************************)

\* <-req.CacheEntry.Started, then the entry's headers are copied to the
\* response.
WaitStarted(r) ==
    /\ rq[r].pc = "wait"
    /\ ent[rq[r].CacheEntry].Started
    /\ rq' = [rq EXCEPT ![r].header = ent[rq[r].CacheEntry].HTTPInfo, ![r].pc = "loop"]
    /\ UNCHANGED <<cache, ent, fs, data, units>>

\* The line logged after the loop: it tests the function's err, which the
\* loop never assigns (the loop's := declares its own err).
InDownloadLog(loopErr) == "inDownloadServed"

\* A Seek that asks for the start of the file.
SeekStart(e) == 0

\* File.Seek(0, io.SeekCurrent): the offset of the entry's descriptor.
Seek(e) == ent[e].pos

\* The bytes io.NewSectionReader(File, off, n) reads.
ReadAt(e, off, n) == SubSeq(data[ent[e].File], off + 1, off + n)

\* One round of the loop: the select takes Complete (done) or the tick, the
\* size is read, and the bytes between fileSize and the size are copied to
\* the client.  The file only grows, so the round is one step.
TailRound(r, done) ==
    /\ rq[r].pc = "loop"
    /\ done => ent[rq[r].CacheEntry].Complete
    /\ ~ent[rq[r].CacheEntry].closed
    /\ LET e       == rq[r].CacheEntry
           newSize == Seek(e)
       IN  IF newSize <= rq[r].fileSize
           THEN rq' = [rq EXCEPT ![r].log = IF done THEN InDownloadLog(FALSE) ELSE @,
                                 ![r].pc = IF done THEN Return(r) ELSE "loop"]
           ELSE rq' = [rq EXCEPT ![r].status = 200,
                                 ![r].delivered = @ \o ReadAt(e, rq[r].fileSize, newSize - rq[r].fileSize),
                                 ![r].fileSize = newSize,
                                 ![r].log = IF done THEN InDownloadLog(FALSE) ELSE @,
                                 ![r].pc = IF done THEN Return(r) ELSE "loop"]
    /\ UNCHANGED <<cache, ent, fs, data, units>>

\* case <-req.CacheEntry.Complete
TailComplete(r) == TailRound(r, TRUE)

\* case <-checkSizeTick.C
TailTick(r) == TailRound(r, FALSE)

\* A round in which Seek fails: break.
TailSeekError(r) ==
    /\ rq[r].pc = "loop"
    /\ rq' = [rq EXCEPT ![r].err = TRUE, ![r].log = InDownloadLog(TRUE), ![r].pc = Return(r)]
    /\ UNCHANGED <<cache, ent, fs, data, units>>

\* A round in which io.Copy fails (a read of the file or a write to the
\* client) after n bytes of the new range reached the client: break.
TailCopyError(r) ==
    /\ rq[r].pc = "loop"
    /\ ~ent[rq[r].CacheEntry].closed
    /\ Seek(rq[r].CacheEntry) > rq[r].fileSize
    /\ \E n \in 0..(Seek(rq[r].CacheEntry) - rq[r].fileSize - 1) :
          rq' = [rq EXCEPT ![r].status = 200,
                           ![r].delivered = @ \o ReadAt(rq[r].CacheEntry, rq[r].fileSize, n),
                           ![r].err = TRUE, ![r].log = InDownloadLog(TRUE), ![r].pc = Return(r)]
    /\ UNCHANGED <<cache, ent, fs, data, units>>

(***************************************************************************)
(* fileHandlerCached                                                       *)
(***************************************************************************)

\* os.Open of the final path and http.ServeContent of what the file holds;
\* 500 when the file cannot be opened.
ServeCached(r) ==
    /\ rq[r].pc = "serve"
    /\ LET p == GetCachePathName(rq[r].File)
       IN  IF fs[p] = None
           THEN rq' = [rq EXCEPT ![r].status = 500, ![r].log = "openFailed", ![r].pc = Return(r)]
           ELSE rq' = [rq EXCEPT ![r].status = 200, ![r].delivered = data[fs[p]],
                                 ![r].log = "servingCached", ![r].pc = Return(r)]
    /\ UNCHANGED <<cache, ent, fs, data, units>>

(***************************************************************************)
(* handleRequest, deferred LockedDo(cacheCleaner)                          *)
(***************************************************************************)

\* A cleaner that closes Complete whoever runs it.
ClosesCompleteAlways(fileStatus) == TRUE

\* if fileStatus == fileStatusMissing { close(entry.Complete) }
ClosesComplete(fileStatus) == fileStatus = "missing"

\* A cleanup that takes the count to 0 whoever else holds the entry.
ReleaseAll(refCount) == 0

\* entry.RefCount--
Release(refCount) == refCount - 1

\* The closure, with the registry mutex held: Complete is closed by the
\* primary, the count is decremented, and at 0 the file is closed, the
\* temporary path removed and the key deleted.
CacheCleaner(r) ==
    /\ rq[r].pc = "cleanup"
    /\ LET e    == rq[r].CacheEntry
           n    == Release(ent[e].RefCount)
           last == n = 0
       IN  /\ ent' = [ent EXCEPT ![e].Complete = @ \/ ClosesComplete(rq[r].FileStatus),
                                 ![e].RefCount = n,
                                 ![e].closed = @ \/ last]
           /\ fs' = IF last THEN [fs EXCEPT ![GetCacheTempPathName(rq[r].File)] = None] ELSE fs
           /\ cache' = IF last THEN [cache EXCEPT ![rq[r].File] = None] ELSE cache
    /\ rq' = [rq EXCEPT ![r].pc = "done"]
    /\ UNCHANGED <<data, units>>

\* Every step of request r.
Handle(r) ==
    \/ ClassifyNoCaching(r)
    \/ ClassifyCached(r)
    \/ ClassifyInDownload(r)
    \/ ClassifyMissing(r)
    \/ ClassifyError(r)
    \/ FetchTransportError(r)
    \/ FetchErrorStatus(r)
    \/ FetchOK(r)
    \/ CopyUncacheable(r)
    \/ CloseStarted(r)
    \/ CopyByte(r)
    \/ CopyFileError(r)
    \/ CopyReadError(r)
    \/ CopyEOF(r)
    \/ WaitStarted(r)
    \/ TailComplete(r)
    \/ TailTick(r)
    \/ TailSeekError(r)
    \/ TailCopyError(r)
    \/ ServeCached(r)
    \/ CacheCleaner(r)

Next == \E r \in Reqs : Handle(r)

Spec == Init /\ [][Next]_vars

\* The steps of request r that the Go runtime and a responding upstream
\* guarantee to happen once they are possible: a goroutine that can run does
\* run, http.Get and every Read of the body return (with a result or an
\* error), and a select with Complete closed takes that case sooner or later.
\* Arrivals and the failures of a follower's own I/O are not among them.
Progress(r) ==
    \/ FetchTransportError(r)
    \/ FetchErrorStatus(r)
    \/ FetchOK(r)
    \/ CopyUncacheable(r)
    \/ CloseStarted(r)
    \/ CopyByte(r)
    \/ CopyFileError(r)
    \/ CopyReadError(r)
    \/ CopyEOF(r)
    \/ WaitStarted(r)
    \/ TailComplete(r)
    \/ ServeCached(r)
    \/ CacheCleaner(r)

FairSpec == Spec /\ \A r \in Reqs : WF_vars(Progress(r))

(***************************************************************************)
(* Properties                                                              *)
(***************************************************************************)

\* s is a prefix of t
IsPrefix(s, t) == Len(s) <= Len(t) /\ SubSeq(t, 1, Len(s)) = s

\* Request r is being handled: classified, and its handler or its cleanup
\* has not finished.
Live(r) == rq[r].pc \notin {"idle", "done"}

\* Request r is the primary of a download that is still being handled.
LivePrimary(r) == Live(r) /\ rq[r].FileStatus = "missing"

\* Request q is classified in this step.
Classified(q) == rq[q].pc = "idle" /\ rq'[q].pc # "idle"

C1_State ==
    /\ \A p, q \in Reqs :
          LivePrimary(p) /\ LivePrimary(q) /\ rq[p].File = rq[q].File => p = q
    /\ \A p \in Reqs : rq[p].FileStatus = "missing" => rq[p].fetched <= 1
    /\ \A q \in Reqs : rq[q].FileStatus = "inDownload" => rq[q].fetched = 0

C1_Step ==
    \A p, q \in Reqs :
        ( /\ LivePrimary(p)
          /\ Classified(q)
          /\ rq'[q].File = rq[p].File
          /\ fs[GetCachePathName(rq[p].File)] = None
          /\ rq'[q].log # "cacheError" )
        => /\ rq'[q].FileStatus = "inDownload"
           /\ rq'[q].CacheEntry = rq[p].CacheEntry
           /\ rq'[q].CacheEntry = cache[rq[p].File]

\* C1: among the requests for one non-database file name with no file at its
\* final path (and whose os.Stat does not fail) that arrive while the first
\* of them is being handled, exactly one is the primary (missing) and fetches
\* from the upstream, once; every other one is classified inDownload, is
\* bound to the primary's entry and never fetches.
C1_SingleFetch == []C1_State /\ [][C1_Step]_vars

\* C1 witness: a primary that has fetched and two followers of its entry,
\* all three being handled.
C1_Witness ==
    \E p, q1, q2 \in Reqs :
        /\ q1 # q2
        /\ LivePrimary(p) /\ rq[p].fetched = 1
        /\ \A q \in {q1, q2} :
              /\ Live(q) /\ rq[q].FileStatus = "inDownload"
              /\ rq[q].File = rq[p].File /\ rq[q].CacheEntry = rq[p].CacheEntry

\* Request r is a follower: it was bound to an entry another request created.
Follower(r) == rq[r].FileStatus = "inDownload"

\* The follower has left its loop after taking Complete, with no failed
\* Seek, read or write to its client.
LeftOnComplete(r) ==
    Follower(r) /\ rq[r].pc \in {"cleanup", "done"} /\ ~rq[r].err

\* The bytes the primary of follower r's entry has written to the entry's
\* file (the entry is named after its primary).
PrimaryWritten(r) == rq[rq[r].CacheEntry].written

\* C2: at every moment the bytes a follower has delivered to its client are
\* a prefix, from offset 0, of the bytes the primary has written to the
\* entry's file; a follower that leaves its loop after observing Complete
\* without an error has delivered exactly all of them.
C2_ByteExact ==
    \A r \in Reqs :
        Follower(r) =>
            /\ IsPrefix(rq[r].delivered, PrimaryWritten(r))
            /\ LeftOnComplete(r) => rq[r].delivered = PrimaryWritten(r)

\* What does hold of a follower: the bytes delivered are a prefix of the
\* bytes of the inode the entry has open, whoever wrote them.
C2_PrefixOfInode ==
    \A r \in Reqs :
        Follower(r) => IsPrefix(rq[r].delivered, data[ent[rq[r].CacheEntry].File])

\* The requests bound to entry e that have not run their cleanup.
Holders(e) == {r \in Reqs : rq[r].CacheEntry = e /\ rq[r].pc # "done"}

\* Entry e is the value of a key of the registry.
InRegistry(e) == \E f \in FileNames : cache[f] = e

\* Entry e has been created.
Created(e) == ent[e].File # None

\* The primary of entry e renamed the temporary file to the final path
\* (err == nil after renameTempFile).
Renamed(e) == rq[e].log \in {"cachedServed", "cachedNotServed"}

\* This step deletes the temporary file of entry e: the file the entry has
\* open is at the temporary path before the step and the path is empty after.
TempDeleted(e) ==
    /\ fs[GetCacheTempPathName(rq[e].File)] = ent[e].File
    /\ fs'[GetCacheTempPathName(rq[e].File)] = None

C3_State ==
    \A e \in Reqs :
        /\ ent[e].RefCount = Cardinality(Holders(e))
        /\ InRegistry(e) <=> ent[e].RefCount > 0

C3_Step ==
    \A e \in Reqs :
        /\ (InRegistry(e) /\ ~InRegistry(e)') =>
               /\ ent'[e].RefCount = 0
               /\ TempDeleted(e) <=> ~Renamed(e)
        /\ (~InRegistry(e) /\ InRegistry(e)') => ~Created(e)

\* C3: an entry's RefCount is the number of requests bound to it that have
\* not run their cleanup; the entry is in the registry exactly while the
\* count is above 0; it leaves the registry only when the count returns to 0
\* and never enters it again; and the step that removes it deletes its
\* temporary file if and only if the file was never renamed to the final path.
C3_RefCount == []C3_State /\ [][C3_Step]_vars

\* The reference-count part of C3 alone (without the temporary file).
C3_CountOnly ==
    /\ []C3_State
    /\ [][\A e \in Reqs :
            /\ (InRegistry(e) /\ ~InRegistry(e)') => ent'[e].RefCount = 0
            /\ (~InRegistry(e) /\ InRegistry(e)') => ~Created(e)]_vars

\* Request r holds an entry.
Bound(r) == rq[r].CacheEntry # None

\* C4: every request bound to an entry eventually runs the cleanup section
\* (once: the cleanup is the step from "cleanup" to "done"), so that every
\* entry's RefCount eventually returns to 0 and the entry leaves the registry.
C4_CleanupRuns ==
    /\ \A r \in Reqs : Bound(r) ~> (rq[r].pc = "done")
    /\ \A e \in Reqs : Created(e) ~> (ent[e].RefCount = 0 /\ ~InRegistry(e))

\* The upstream fetch of primary p has failed: a transport error or an
\* error status.
FetchFailed(p) ==
    rq[p].FileStatus = "missing" /\ rq[p].log \in {"queryFailed", "hostResponded"}

\* Nothing is left of file f: no temporary file, no final file, no entry.
NothingLeft(f) ==
    /\ fs[GetCacheTempPathName(f)] = None
    /\ fs[GetCachePathName(f)] = None
    /\ cache[f] = None

\* C5: when the primary's upstream fetch for a key fails, whatever followers
\* have joined, the system eventually reaches a state with no file at the
\* temporary path, none at the final path and no entry for the key.
C5_FailedFetchCleansUp ==
    \A p \in Reqs, f \in FileNames :
        (FetchFailed(p) /\ rq[p].File = f) ~> NothingLeft(f)

\* The download of the primary of follower r's entry has ended in failure:
\* the fetch failed, or the copy or the rename did.
PrimaryFailed(r) ==
    Follower(r) /\ rq[rq[r].CacheEntry].log \in {"queryFailed", "hostResponded", "cachingFailed"}

\* C6: if the primary's download ends in failure, before any header was
\* mirrored or after some bytes were written, every follower of the entry
\* eventually leaves its loop and ends its response, having been delivered
\* only bytes of the entry's file: no follower waits forever.
C6_FollowersEnd ==
    /\ []C2_PrefixOfInode
    /\ \A r \in Reqs : PrimaryFailed(r) ~> (rq[r].pc = "done")

\* s is a suffix of t
IsSuffix(s, t) == Len(s) <= Len(t) /\ SubSeq(t, Len(t) - Len(s) + 1, Len(t)) = s

\* Request p is a primary (it created its entry).
Primary(p) == rq[p].FileStatus = "missing"

\* A write to the client of primary p fails in this step.
ClientFails(p) == Primary(p) /\ ~rq[p].pwErr /\ rq'[p].pwErr

C7_Step ==
    \A p \in Reqs :
        ClientFails(p) =>
            /\ rq'[p].pc = "copy" /\ ~rq'[p].err
            /\ rq'[p].written = Append(rq[p].written, Body(rq[p].File)[rq[p].nread + 1])
            /\ data'[ent[p].File] = Append(data[ent[p].File], Body(rq[p].File)[rq[p].nread + 1])
            /\ rq'[p].delivered = rq[p].delivered
            /\ ent'[p].Started = ent[p].Started /\ ent'[p].Complete = ent[p].Complete

C7_State ==
    \A p \in Reqs :
        (Primary(p) /\ rq[p].pwErr) =>
            /\ rq[p].pc = "copy" => rq[p].written = SubSeq(Body(rq[p].File), 1, rq[p].nread)
            /\ (rq[p].pc \in {"cleanup", "done"} /\ ~rq[p].err) =>
                   /\ rq[p].written = Body(rq[p].File)
                   /\ rq[p].log = "cachedNotServed"
                   /\ \A r \in Reqs :
                         (LeftOnComplete(r) /\ rq[r].CacheEntry = p) =>
                             IsSuffix(Body(rq[p].File), rq[r].delivered)
            /\ ent[p].Complete <=> rq[p].pc = "done"

\* C7: a failed write to the primary's client does not stop the copy: in
\* the step where it fails the byte still goes to the file, and the copy
\* goes on; unless the body, the file or the rename fails, the file
\* receives the whole body, the rename is done (the outcome logged is
\* "cached, not served"), and a follower that leaves on Complete has
\* received the whole body; only the delivery to that client stops, and
\* Complete is closed by the primary's cleanup as ever.
C7_ClientFailureIgnored == []C7_State /\ [][C7_Step]_vars

\* C7 witness: a primary whose client failed has cached the file, and a
\* follower of its entry has left on Complete with the whole body.
C7_Witness ==
    \E p, r \in Reqs :
        /\ Primary(p) /\ rq[p].pwErr /\ rq[p].log = "cachedNotServed"
        /\ rq[p].delivered = <<>>
        /\ LeftOnComplete(r) /\ rq[r].CacheEntry = p
        /\ rq[r].delivered = Body(rq[p].File)
        /\ fs[GetCachePathName(rq[p].File)] = ent[p].File

\* A read, a Seek or a write to the client fails in follower f in this step.
FollowerFails(f) == Follower(f) /\ ~rq[f].err /\ rq'[f].err

\* The failed follower f runs its cleanup in this step.
FailedFollowerCleans(f) ==
    Follower(f) /\ rq[f].err /\ rq[f].pc = "cleanup" /\ rq'[f].pc = "done"

C8_Step ==
    \A f \in Reqs :
        /\ FollowerFails(f) =>
               /\ rq'[f].pc = "cleanup"
               /\ UNCHANGED <<cache, ent, fs, data>>
               /\ \A q \in Reqs \ {f} : rq'[q] = rq[q]
        /\ FailedFollowerCleans(f) =>
               LET e == rq[f].CacheEntry
               IN  /\ ent'[e].RefCount = ent[e].RefCount - 1
                   /\ ent'[e].Started = ent[e].Started
                   /\ ent'[e].Complete = ent[e].Complete
                   /\ ent'[e].File = ent[e].File /\ ent'[e].pos = ent[e].pos
                   /\ ent'[e].HTTPInfo = ent[e].HTTPInfo
                   /\ ent'[e].RefCount > 0 =>
                          ent'[e].closed = ent[e].closed /\ UNCHANGED <<cache, fs>>
                   /\ \A d \in Reqs \ {e} : ent'[d] = ent[d]
                   /\ data' = data
                   /\ \A q \in Reqs \ {f} : rq'[q] = rq[q]

\* C8: an error in one follower ends only that follower: the step in which
\* it fails changes nothing but the follower itself, and its cleanup changes
\* its entry by one RefCount decrement only (Started, Complete, the file and
\* its bytes, the primary and the other followers are as before; the entry
\* is closed and removed only if that decrement brings the count to 0).
C8_FollowerErrorIsLocal == [][C8_Step]_vars

\* C8 witness: a follower has failed and run its cleanup while the primary
\* is still copying and another follower of the entry is in its loop.
C8_Witness ==
    \E f, q \in Reqs :
        /\ Follower(f) /\ rq[f].err /\ rq[f].pc = "done"
        /\ Follower(q) /\ rq[q].pc = "loop" /\ rq[q].CacheEntry = rq[f].CacheEntry
        /\ rq[q].delivered # <<>>
        /\ rq[rq[f].CacheEntry].pc = "copy"
        /\ ~ent[rq[f].CacheEntry].Complete

\* A file name ending in .db or .db.sig, in the words of the claim.
DatabaseName(f) == HasSuffix(f, ".db") \/ HasSuffix(f, ".db.sig")

\* Request r asks for a database file.
Database(r) == rq[r].pc # "idle" /\ DatabaseName(rq[r].File)

C9_State ==
    /\ \A r \in Reqs :
          Database(r) =>
              /\ rq[r].FileStatus = "noCaching"
              /\ rq[r].CacheEntry = None
              /\ rq[r].fetched = (IF rq[r].pc = "fetch" THEN 0 ELSE 1)
              /\ IsPrefix(rq[r].delivered, Body(rq[r].File))
    /\ \A f \in FileNames :
          DatabaseName(f) => cache[f] = None /\ fs[GetCacheTempPathName(f)] = None

C9_Step ==
    \A r \in Reqs :
        (rq'[r] # rq[r] /\ DatabaseName(rq'[r].File)) => UNCHANGED <<cache, ent, fs, data>>

\* C9: every request for a name ending in .db or .db.sig is classified
\* noCaching and issues its own upstream fetch, whatever the registry and the
\* cache directory hold; it holds no entry, no step of it touches the
\* registry, an entry or a file of the cache directory, and what it delivers
\* comes from the upstream body.
C9_DatabasesBypass == []C9_State /\ [][C9_Step]_vars

\* C9 witness: two requests for the same database file have both fetched,
\* the cache directory holding a file of that name and the registry an
\* entry of a package in download; so has a request for a .db.sig file.
C9_Witness ==
    \E r1, r2 \in Reqs :
        /\ r1 # r2
        /\ rq[r1].File = "x.db" /\ rq[r2].File = "x.db"
        /\ rq[r1].fetched = 1 /\ rq[r2].fetched = 1
        /\ rq[r1].delivered = Body("x.db")
        /\ fs[GetCachePathName("x.db")] = OldInode

\* C9 witness for the second suffix, with a download in the registry.
C9_WitnessSig ==
    \E r, p \in Reqs :
        /\ rq[r].File = "x.db.sig" /\ rq[r].fetched = 1
        /\ LivePrimary(p) /\ cache[rq[p].File] = p

\* The file names the engine caches: the requestable names that are not
\* database names (names beginning with a dot included).
PackageNames == {f \in FileNames : ~DatabaseName(f)}

\* This step is the rename of primary p after a copy that ended without
\* error.
RenamesAfterCopy(p) ==
    /\ Primary(p) /\ rq[p].pc = "copy" /\ rq[p].written = Body(rq[p].File)
    /\ rq'[p].log \in {"cachedServed", "cachedNotServed"}

C10_State ==
    /\ \A f \in PackageNames :
          fs[GetCachePathName(f)] # None => data[fs[GetCachePathName(f)]] = Body(f)
    /\ \A r \in Reqs :
          rq[r].FileStatus = "cached" =>
              /\ rq[r].fetched = 0
              /\ rq[r].log = "servingCached" => rq[r].delivered = Body(rq[r].File)

C10_Step ==
    \A f \in PackageNames :
        LET p == GetCachePathName(f)
        IN  /\ (fs[p] = None /\ fs'[p] # None) =>
                   \E q \in Reqs : rq[q].File = f /\ RenamesAfterCopy(q)
            /\ fs[p] # None => (fs'[p] = fs[p] /\ data'[fs[p]] = data[fs[p]])

\* C10: a file at the final cache path of a requestable package name
\* (names beginning with a dot included) got there only by the rename that
\* follows a copy of the upstream body that ended without error, holds that
\* complete body and never changes afterwards; a request classified cached
\* is served the complete body and issues no upstream fetch.
C10_FinalFilesComplete == []C10_State /\ [][C10_Step]_vars

(***************************************************************************)
(* The classification section                                              *)
(***************************************************************************)

\* The status the claim's table gives file name f in the current state.
C11_Expected(f) ==
    IF DatabaseName(f) THEN "noCaching"
    ELSE IF fs[GetCachePathName(f)] # None THEN "cached"
    ELSE IF cache[f] # None THEN "inDownload"
    ELSE "missing"

\* Request q leaves the classification section without an error in this step.
ClassifiedOK(q) == Classified(q) /\ rq'[q].log # "cacheError"

C11_Step ==
    \A q \in Reqs :
        ClassifiedOK(q) =>
            LET f == rq'[q].File
                s == C11_Expected(f)
            IN  /\ rq'[q].FileStatus = s
                /\ s \in {"noCaching", "cached"} =>
                       /\ rq'[q].CacheEntry = None
                       /\ UNCHANGED <<cache, ent, fs>>
                /\ s = "inDownload" =>
                       /\ rq'[q].CacheEntry = cache[f]
                       /\ ent'[cache[f]] = [ent[cache[f]] EXCEPT !.RefCount = @ + 1]
                       /\ \A e \in Reqs \ {cache[f]} : ent'[e] = ent[e]
                       /\ UNCHANGED <<cache, fs>>
                /\ s = "missing" =>
                       /\ rq'[q].CacheEntry = q /\ ~Created(q)
                       /\ ent'[q].RefCount = 1 /\ ~ent'[q].Started /\ ~ent'[q].Complete
                       /\ \A e \in Reqs \ {q} : ent'[e] = ent[e]
                       /\ cache' = [cache EXCEPT ![f] = q]
                /\ \A r \in Reqs \ {q} : rq'[r] = rq[r]
                /\ data' = data

\* C11: the status a request gets in the classification section is a
\* function of its file name, the cache directory and the registry as they
\* are when the section runs: noCaching for a database name whatever the
\* other two hold, else cached if a file is at the final path, else
\* inDownload with the entry's RefCount raised by exactly 1 if the registry
\* holds an entry for the name, else missing with a new entry of RefCount 1
\* inserted under the name; the section is one step that changes no other
\* request, and no request has more than one status.
C11_Classification ==
    /\ [](\A r \in Reqs : rq[r].pc # "idle" /\ rq[r].log # "cacheError" =>
              rq[r].FileStatus \in {"noCaching", "cached", "inDownload", "missing"})
    /\ [][C11_Step]_vars

\* C11 witness: for one file name, a primary (missing), a follower that
\* joined its entry (inDownload) and, after the rename, a request
\* classified cached while the follower still holds the entry.
C11_Witness ==
    \E p, q, c \in Reqs :
        /\ rq[p].FileStatus = "missing" /\ rq[q].FileStatus = "inDownload"
        /\ rq[c].FileStatus = "cached"
        /\ rq[q].File = rq[p].File /\ rq[c].File = rq[p].File
        /\ rq[q].CacheEntry = p /\ Live(q) /\ ent[p].RefCount >= 1

\* The classification section of request r returned an error ("unable to
\* stat cached file" or "unable to create cache file").
CacheError(r) == rq[r].log = "cacheError"

\* The step in which the section of request r fails leaves the registry,
\* the entries, the cache directory and every other request as they were.
C12_Step ==
    \A r \in Reqs :
        (Classified(r) /\ CacheError(r)') =>
            /\ UNCHANGED <<cache, ent, fs, data>>
            /\ \A q \in Reqs \ {r} : rq'[q] = rq[q]

\* What does hold when the section fails: the request ends holding no
\* entry, with nothing written to its response by the handler, and the step
\* changes nothing else.
C12_ErrorIsLocal ==
    /\ [](\A r \in Reqs : CacheError(r) =>
              rq[r].pc = "done" /\ rq[r].CacheEntry = None /\ rq[r].delivered = <<>>)
    /\ [][C12_Step]_vars

\* C12: when os.Stat of the final path or the creation of the temporary
\* file fails inside the classification section, the request is answered
\* with status 500, holds no entry and leaves none in the registry, and no
\* other request is affected.
C12_ErrorAnswered500 ==
    /\ [](\A r \in Reqs : CacheError(r) => rq[r].status = 500 /\ rq[r].CacheEntry = None)
    /\ [][C12_Step]_vars

(***************************************************************************)
(* handler: newRequest and request.GetUpstreamURL, exercised on their own  *)
(* on the URLs a client can send and the templates -upstream can be set to.*)
(***************************************************************************)

\* The proxy's own state, in the specifications of the parts.
ProxyUnused ==
    rq = Unused /\ cache = Unused /\ ent = Unused /\ fs = Unused /\ data = Unused

\* The largest number of slashes of a request URL.
MaxSegs == 5

\* What a URL holds before its first slash: nothing (origin form), or the
\* scheme of an absolute-form request target.
Leads == {"", "http:"}

\* What a URL holds between two slashes.
Segs == {"", "ab", "abc", "$arch"}

\* The sequences over S of length at most n.
RECURSIVE SeqsUpTo(_, _)
SeqsUpTo(S, n) ==
    IF n = 0 THEN {<<>>}
    ELSE LET shorter == SeqsUpTo(S, n - 1)
         IN  shorter \cup {Append(q, x) : q \in {t \in shorter : Len(t) = n - 1}, x \in S}

\* The URL spelled by a lead and segments: every segment follows a slash.
RECURSIVE Spell(_, _)
Spell(lead, segs) ==
    IF segs = <<>> THEN lead ELSE Spell(lead \o "/" \o Head(segs), Tail(segs))

\* The values of -upstream, as pieces: a piece is the token $repo, the token
\* $arch, or text without a token.
Templates ==
    { <<"m/", "$repo", "/os/", "$arch">>,
      <<"m/", "$arch", "/", "$repo">>,
      <<"m/", "$repo", "/", "$repo", "/", "$arch", "/", "$arch">>,
      <<"m">> }

\* The string of a sequence of pieces.
RECURSIVE Concat(_)
Concat(pieces) == IF pieces = <<>> THEN "" ELSE Head(pieces) \o Concat(Tail(pieces))

\* strings.Index, counted from 1 (0: substr is not in s).
Index(s, substr) ==
    LET at == {i \in 1..(Len(s) - Len(substr) + 1) : SubSeq(s, i, i + Len(substr) - 1) = substr}
    IN  IF at = {} THEN 0 ELSE CHOOSE i \in at : \A j \in at : i <= j

\* strings.Split(s, sep) for a non-empty sep.
RECURSIVE Split(_, _)
Split(s, sep) ==
    LET i == Index(s, sep)
    IN  IF i = 0 THEN <<s>>
        ELSE <<SubSeq(s, 1, i - 1)>> \o Split(SubSeq(s, i + Len(sep), Len(s)), sep)

\* strings.Replace(s, old, new, 1)
Replace(s, old, new) ==
    LET i == Index(s, old)
    IN  IF i = 0 THEN s
        ELSE SubSeq(s, 1, i - 1) \o new \o SubSeq(s, i + Len(old), Len(s))

\* request{}
NoRequest == [Repo |-> "", OS |-> "", Arch |-> "", File |-> ""]

\* newRequest: the request and whether "invalid URL" is returned.
newRequest(requestURL) ==
    LET urlSplit == Tail(Split(requestURL, "/"))
    IN  IF Len(urlSplit) < 4 \/ Len(urlSplit[4]) < 3
        THEN [req |-> NoRequest, err |-> TRUE]
        ELSE [req |-> [Repo |-> urlSplit[1], OS |-> urlSplit[2],
                       Arch |-> urlSplit[3], File |-> urlSplit[4]], err |-> FALSE]

\* request.GetUpstreamURL with gSettings.UpstreamServer
GetUpstreamURL(UpstreamServer, req) ==
    LET upstreamURL == Replace(Replace(UpstreamServer, "$repo", req.Repo), "$arch", req.Arch)
    IN  upstreamURL \o "/" \o req.File

\* main sets gSettings.UpstreamServer; a client sends a URL.
HandlerInit ==
    /\ ProxyUnused /\ lockedDo = Unused /\ writer = Unused /\ legacy = Unused
    /\ \E lead \in Leads, segs \in SeqsUpTo(Segs, MaxSegs), pieces \in Templates :
          hreq = [pc |-> "new", lead |-> lead, segs |-> segs, URL |-> Spell(lead, segs),
                  pieces |-> pieces, UpstreamServer |-> Concat(pieces),
                  req |-> NoRequest, err |-> FALSE, status |-> 0, upstreamURL |-> ""]

\* handler: req, err := newRequest(r.URL.String()); 400 on an error.
HandlerParse ==
    /\ hreq.pc = "new"
    /\ LET res == newRequest(hreq.URL)
       IN  hreq' = [hreq EXCEPT !.req = res.req, !.err = res.err,
                                !.status = IF res.err THEN 400 ELSE @,
                                !.pc = IF res.err THEN "done" ELSE "handle"]
    /\ UNCHANGED <<rq, cache, ent, fs, data, writer, legacy, lockedDo>>

\* fileHandlerMissingOrUncacheable: http.Get(req.GetUpstreamURL())
HandlerFetch ==
    /\ hreq.pc = "handle"
    /\ hreq' = [hreq EXCEPT !.upstreamURL = GetUpstreamURL(hreq.UpstreamServer, hreq.req),
                            !.pc = "done"]
    /\ UNCHANGED <<rq, cache, ent, fs, data, writer, legacy, lockedDo>>

HandlerNext == HandlerParse \/ HandlerFetch

HandlerSpec == HandlerInit /\ [][HandlerNext]_vars

\* The handler has parsed the URL.
Parsed == hreq.pc \in {"handle", "done"}

\* The URL consists of four non-empty segments, the last of length >= 3.
FourSegments ==
    /\ hreq.lead = "" /\ Len(hreq.segs) = 4
    /\ \A i \in 1..4 : hreq.segs[i] # ""
    /\ Len(hreq.segs[4]) >= 3

\* The request made of the first four segments.
FirstFour ==
    [Repo |-> hreq.segs[1], OS |-> hreq.segs[2], Arch |-> hreq.segs[3], File |-> hreq.segs[4]]

\* C13: parsing a request path succeeds exactly when the path consists of
\* four non-empty segments whose last one has length >= 3, and then yields
\* exactly those segments as repository, OS label, architecture and file
\* name; every other path, the empty string included, fails to parse.
C13_ParseExact ==
    Parsed => /\ ~hreq.err <=> FourSegments
              /\ ~hreq.err => hreq.req = FirstFour

\* What newRequest does: it succeeds exactly when at least four segments
\* follow the first slash and the fourth has length >= 3, whatever precedes
\* the first slash, whether segments are empty and whatever follows the
\* fourth; the request is made of the first four.
C13_ParsesFirstFour ==
    Parsed => /\ ~hreq.err <=> (Len(hreq.segs) >= 4 /\ Len(hreq.segs[4]) >= 3)
              /\ ~hreq.err => hreq.req = FirstFour
              /\ hreq.err => hreq.status = 400 /\ hreq.pc = "done"

\* The place of the first piece that is the token tok (0: none).
FirstToken(pieces, tok) ==
    LET at == {i \in 1..Len(pieces) : pieces[i] = tok}
    IN  IF at = {} THEN 0 ELSE CHOOSE i \in at : \A j \in at : i <= j

\* The template with its first $repo piece and its first $arch piece
\* replaced, the other pieces as they are.
Substituted(pieces, repo, arch) ==
    Concat([i \in 1..Len(pieces) |->
               IF i = FirstToken(pieces, "$repo") THEN repo
               ELSE IF i = FirstToken(pieces, "$arch") THEN arch
               ELSE pieces[i]])

\* The handler has built the upstream URL.
Built == hreq.pc = "done" /\ ~hreq.err

\* C14: for every template and every request, the upstream URL is the
\* template with the first $repo replaced by the repository segment and the
\* first $arch replaced by the architecture segment, further occurrences
\* left as they are, followed by "/" and the file name, whatever characters
\* the segments contain.
C14_UpstreamURL ==
    Built => hreq.upstreamURL =
                 Substituted(hreq.pieces, hreq.req.Repo, hreq.req.Arch) \o "/" \o hreq.req.File

\* What does hold: the same, for the requests whose repository segment does
\* not hold the token $arch.
C14_PlainRepo ==
    (Built /\ Index(hreq.req.Repo, "$arch") = 0) =>
        hreq.upstreamURL =
            Substituted(hreq.pieces, hreq.req.Repo, hreq.req.Arch) \o "/" \o hreq.req.File

(***************************************************************************)
(* The legacy handler (the version the README's limitations describe):     *)
(* the prologue of its handleRequest, one step per statement, for the      *)
(* requests of one file name.                                              *)
(***************************************************************************)

\* Number of requests the legacy handler receives for the file.
NLegacy == 3

LegacyReqs == 1..NLegacy

\* A goroutine of the legacy handler that has not been started.
NoLegacyReq == [pc |-> "idle", ok |-> FALSE, m |-> None]

\* MutexMap is empty (None: no key for the file), no mutex is locked.
LegacyInit ==
    /\ ProxyUnused /\ lockedDo = Unused /\ hreq = Unused /\ writer = Unused
    /\ legacy = [MutexMap |-> None, locked |-> {}, fatal |-> FALSE,
                 g |-> [r \in LegacyReqs |-> NoLegacyReq]]

\* The goroutine of request r is at pc and the process is running.
LegacyAt(r, pc) == ~legacy.fatal /\ legacy.g[r].pc = pc

\* handler calls handleRequest for request r.
LegacyArrive(r) ==
    /\ LegacyAt(r, "idle")
    /\ \A q \in LegacyReqs : q < r => legacy.g[q].pc # "idle"
    /\ legacy' = [legacy EXCEPT !.g[r].pc = "check"]
    /\ UNCHANGED <<rq, cache, ent, fs, data, hreq, writer, lockedDo>>

\* _, ok := MutexMap[req.File]
LegacyCheck(r) ==
    /\ LegacyAt(r, "check")
    /\ legacy' = [legacy EXCEPT !.g[r].ok = legacy.MutexMap # None,
                                !.g[r].pc = IF legacy.MutexMap # None THEN "load" ELSE "store"]
    /\ UNCHANGED <<rq, cache, ent, fs, data, hreq, writer, lockedDo>>

\* if !ok { MutexMap[req.File] = &sync.Mutex{} }: the new mutex is named
\* after the request that made it.
LegacyStore(r) ==
    /\ LegacyAt(r, "store")
    /\ legacy' = [legacy EXCEPT !.MutexMap = r, !.g[r].pc = "load"]
    /\ UNCHANGED <<rq, cache, ent, fs, data, hreq, writer, lockedDo>>

\* MutexMap[req.File] of line 123: the pointer the map holds now; a nil
\* pointer when the key was deleted since the check, and Lock on it panics.
LegacyLoad(r) ==
    /\ LegacyAt(r, "load")
    /\ legacy' = [legacy EXCEPT !.g[r].m = legacy.MutexMap,
                                !.g[r].pc = IF legacy.MutexMap = None THEN "panic" ELSE "lock"]
    /\ UNCHANGED <<rq, cache, ent, fs, data, hreq, writer, lockedDo>>

\* .Lock(): returns once the mutex is unlocked, and locks it.
LegacyLock(r) ==
    /\ LegacyAt(r, "lock")
    /\ legacy.g[r].m \notin legacy.locked
    /\ legacy' = [legacy EXCEPT !.locked = @ \cup {legacy.g[r].m}, !.g[r].pc = "work"]
    /\ UNCHANGED <<rq, cache, ent, fs, data, hreq, writer, lockedDo>>

\* The body of handleRequest: the temporary file is created (truncated),
\* written and renamed, or the cached file is served.
LegacyWork(r) ==
    /\ LegacyAt(r, "work")
    /\ legacy' = [legacy EXCEPT !.g[r].pc = "return"]
    /\ UNCHANGED <<rq, cache, ent, fs, data, hreq, writer, lockedDo>>

\* The return: defer delete(MutexMap, req.File).  Nothing unlocks the mutex.
LegacyReturn(r) ==
    /\ LegacyAt(r, "return")
    /\ legacy' = [legacy EXCEPT !.MutexMap = None, !.g[r].pc = "done"]
    /\ UNCHANGED <<rq, cache, ent, fs, data, hreq, writer, lockedDo>>

\* The statement a goroutine at pc is about to run reads MutexMap, or writes it.
ReadsMap(pc) == pc \in {"check", "load"}
WritesMap(pc) == pc \in {"store", "return"}

\* MutexMap is a plain map used by every goroutine without a lock: when a
\* write of one goroutine meets a read or a write of another, the runtime
\* may stop the process ("fatal error: concurrent map writes").
LegacyMapFault(r) ==
    /\ ~legacy.fatal
    /\ WritesMap(legacy.g[r].pc)
    /\ \E q \in LegacyReqs \ {r} : ReadsMap(legacy.g[q].pc) \/ WritesMap(legacy.g[q].pc)
    /\ legacy' = [legacy EXCEPT !.fatal = TRUE]
    /\ UNCHANGED <<rq, cache, ent, fs, data, hreq, writer, lockedDo>>

\* The steps of request r that happen once they are possible.
LegacyRun(r) ==
    \/ LegacyCheck(r)
    \/ LegacyStore(r)
    \/ LegacyLoad(r)
    \/ LegacyLock(r)
    \/ LegacyWork(r)
    \/ LegacyReturn(r)

LegacyNext == \E r \in LegacyReqs : LegacyArrive(r) \/ LegacyRun(r) \/ LegacyMapFault(r)

LegacySpec == LegacyInit /\ [][LegacyNext]_vars

LegacyFairSpec == LegacySpec /\ \A r \in LegacyReqs : WF_vars(LegacyRun(r))

\* Request r is working on the file (its temporary file, or the cached one).
LegacyWorking(r) == legacy.g[r].pc \in {"work", "return"}

\* No two requests work on the file at the same time.
C15_Exclusive ==
    \A r, q \in LegacyReqs : LegacyWorking(r) /\ LegacyWorking(q) => r = q

\* Every request that has arrived is eventually handled to its end.
C15_Completes ==
    \A r \in LegacyReqs : (legacy.g[r].pc # "idle") ~> (legacy.g[r].pc = "done")

\* C15: in the legacy handler the requests for one file are handled one
\* after the other: a request that arrives while another is being handled
\* waits for it and is then handled itself, so that every request
\* eventually completes and no two work on the file at the same time.
C15_Sequential == []C15_Exclusive /\ C15_Completes

\* A request that waits for the mutex of a request that has returned.
C15_WaitsForEver ==
    \E r, q \in LegacyReqs :
        /\ legacy.g[r].pc = "lock" /\ legacy.g[r].m = q
        /\ legacy.g[q].pc = "done" /\ q \in legacy.locked

(***************************************************************************)
(* internal.PerfectWriter, exercised on its own: any sequence of writes to *)
(* a destination that fails when it pleases.                               *)
(***************************************************************************)

\* The largest number of Write calls in one run.
MaxWrites == 3

\* The byte slices written.
Chunks == {"a", "bc"}

\* The nil error, and the errors a destination returns.
NilErr == "nil"
WriteErrors == {"EPIPE", "ECONNRESET"}

\* A writer that forwards every write and keeps the error of the last one.
WriteThrough(w, p, werr) ==
    [w |-> [writer |-> Append(w.writer, p), err |-> werr], n |-> Len(p), err |-> NilErr]

\* PerfectWriter.Write(p) on writer w (its destination being the sequence
\* of slices handed to it), when the destination would return werr: the
\* writer afterwards and the (n, err) returned.
Write(w, p, werr) ==
    [w |-> IF w.err = NilErr
           THEN [writer |-> Append(w.writer, p), err |-> werr]
           ELSE w,
     n |-> Len(p), err |-> NilErr]

\* PerfectWriter.Error()
Error(w) == w.err

\* NewPerfectWriter(w); nothing written yet.
WriterInit ==
    /\ ProxyUnused /\ lockedDo = Unused /\ hreq = Unused /\ legacy = Unused
    /\ writer = [pw |-> [writer |-> <<>>, err |-> NilErr],
                 calls |-> <<>>, rets |-> <<>>, seen |-> <<>>]

\* A caller writes slice p; the destination, if it is handed the slice,
\* returns werr.  calls records what was asked, rets what the caller got.
WriterWrite ==
    /\ Len(writer.calls) < MaxWrites
    /\ \E p \in Chunks, werr \in {NilErr} \cup WriteErrors :
          LET res == Write(writer.pw, p, werr)
          IN  writer' = [writer EXCEPT !.pw = res.w,
                                       !.calls = Append(@, [p |-> p, werr |-> werr]),
                                       !.rets = Append(@, [n |-> res.n, err |-> res.err])]
    /\ UNCHANGED <<rq, cache, ent, fs, data, hreq, legacy, lockedDo>>

\* A caller asks Error(); seen records the answer with the number of calls
\* made before it.
WriterError ==
    /\ IF writer.seen = <<>> THEN TRUE ELSE writer.seen[1] # Len(writer.calls)
    /\ writer' = [writer EXCEPT !.seen = <<Len(writer.calls), Error(writer.pw)>>]
    /\ UNCHANGED <<rq, cache, ent, fs, data, hreq, legacy, lockedDo>>

WriterNext == WriterWrite \/ WriterError

WriterSpec == WriterInit /\ [][WriterNext]_vars

\* The calls whose write the destination fails (or would fail).
Failing(calls) == {i \in 1..Len(calls) : calls[i].werr # NilErr}

\* The first of them (0: none).
FirstFailure(calls) ==
    IF Failing(calls) = {} THEN 0
    ELSE CHOOSE i \in Failing(calls) : \A j \in Failing(calls) : i <= j

\* The error of the first failure among the first n calls, nil if none.
FirstError(calls, n) ==
    LET k == FirstFailure(SubSeq(calls, 1, n))
    IN  IF k = 0 THEN NilErr ELSE calls[k].werr

\* C16: for any sequence of writes, every write reports the full length and
\* no error; the destination is handed each write up to and including the
\* first one that fails and none after it; Error() is nil before the first
\* failure and afterwards always returns that first error.
C16_BestEffort ==
    LET calls == writer.calls
        k     == FirstFailure(calls)
        upTo  == IF k = 0 THEN Len(calls) ELSE k
    IN  /\ Len(writer.rets) = Len(calls)
        /\ \A i \in 1..Len(calls) :
              writer.rets[i] = [n |-> Len(calls[i].p), err |-> NilErr]
        /\ writer.pw.writer = [i \in 1..upTo |-> calls[i].p]
        /\ Error(writer.pw) = FirstError(calls, Len(calls))
        /\ writer.seen # <<>> => writer.seen[2] = FirstError(calls, writer.seen[1])

\* C16 witness: the second of three writes failed, the third would have
\* failed with another error; the destination was handed two slices and
\* Error() has returned the error of the second.
C16_Witness ==
    /\ Len(writer.calls) = 3
    /\ writer.calls[1].werr = NilErr
    /\ writer.calls[2].werr = "EPIPE" /\ writer.calls[3].werr = "ECONNRESET"
    /\ Len(writer.pw.writer) = 2
    /\ writer.seen = <<3, "EPIPE">>

(***************************************************************************)
(* The concurrent append file, as the proxy uses it                        *)
(***************************************************************************)

\* The inode follower r's entry has open.
FileOf(r) == ent[rq[r].CacheEntry].File

\* Follower r holds its entry (the file is open at least until r's cleanup).
Tailing(r) == Follower(r) /\ rq[r].pc \in {"wait", "loop", "cleanup"}

\* The lengths a follower obtains do not decrease, and the bytes below the
\* length it has obtained stay as they are while it holds the file.
C17_Step ==
    \A r \in Reqs :
        Tailing(r) =>
            /\ rq'[r].fileSize >= rq[r].fileSize
            /\ ~ent[rq[r].CacheEntry].closed
            /\ SubSeq(data'[FileOf(r)], 1, rq[r].fileSize)
                   = SubSeq(data[FileOf(r)], 1, rq[r].fileSize)

\* A step that writes to the file of an entry is a step of no follower of
\* that entry: Write does not overlap Seek or ReadAt.
C17_Exclusion ==
    \A r \in Reqs :
        (Tailing(r) /\ data'[FileOf(r)] # data[FileOf(r)]) => rq'[r] = rq[r]

\* What does hold of the file: lengths obtained never exceed the bytes the
\* inode holds, they do not decrease, and the bytes below them are stable.
C17_FileGrows ==
    /\ [](\A r \in Reqs : Follower(r) => rq[r].fileSize <= Len(data[FileOf(r)]))
    /\ [][C17_Step /\ C17_Exclusion]_vars

\* C17: on the concurrent append file Write, Seek and Close never overlap a
\* ReadAt or one another; as a result the length a follower obtains never
\* exceeds the number of bytes already written by the primary, the lengths
\* obtained are non-decreasing, and every byte below a returned length stays
\* readable with the same value for as long as the file is open.
C17_AppendFile ==
    /\ [](\A r \in Reqs : Follower(r) => rq[r].fileSize <= Len(PrimaryWritten(r)))
    /\ [][C17_Step /\ C17_Exclusion]_vars

(***************************************************************************)
(* The signals of an entry                                                 *)
(***************************************************************************)

\* The mirrored headers of entry e have been written.
HeadersWritten(e) == ent[e].HTTPInfo # NoHeaders

\* This step is a step of the primary of entry e, taken from pc.
PrimaryStep(e, pc) ==
    rq[e].FileStatus = "missing" /\ rq[e].CacheEntry = e /\ rq[e].pc = pc /\ rq'[e].pc # pc

C18_State ==
    /\ \A e \in Reqs :
          /\ ent[e].Started => HeadersWritten(e)
          /\ HeadersWritten(e) => ent[e].HTTPInfo = Headers(rq[e].File)
          /\ ent[e].Complete => rq[e].pc = "done" /\ rq[e].FileStatus = "missing"
    /\ \A r \in Reqs :
          Follower(r) =>
              /\ rq[r].pc = "wait" => rq[r].header = NoHeaders
              /\ rq[r].header # NoHeaders =>
                     /\ ent[rq[r].CacheEntry].Started
                     /\ rq[r].header = ent[rq[r].CacheEntry].HTTPInfo

C18_Step ==
    \A e \in Reqs :
        /\ ent'[e].HTTPInfo # ent[e].HTTPInfo =>
               /\ ~HeadersWritten(e) /\ ~ent[e].Started /\ ~ent'[e].Started
               /\ PrimaryStep(e, "fetch")
        /\ ent'[e].Started # ent[e].Started =>
               /\ ~ent[e].Started /\ ~ent[e].Complete
               /\ PrimaryStep(e, "start")
        /\ ent'[e].Complete # ent[e].Complete =>
               /\ ~ent[e].Complete
               /\ PrimaryStep(e, "cleanup") /\ rq'[e].pc = "done"
        /\ (ent[e].Complete /\ ~ent[e].Started) => ~ent'[e].Started
        /\ \A r \in Reqs :
              (Follower(r) /\ rq[r].CacheEntry = e /\ rq'[r].header # rq[r].header) =>
                  ent[e].Started /\ rq'[r].header = ent[e].HTTPInfo

Is2xx(code) == code >= 200 /\ code <= 299

\* The fetch of request r failed in transport / was answered with a status
\* the handler took for a failure (it logs "Host responded with" that status).
TransportFailed(r) == rq[r].log = "queryFailed"
StatusFailed(r) == rq[r].log = "hostResponded"

\* After a failed fetch: no upstream header on the response, no byte to the
\* client, none to the cache file, and the handler has returned.
NothingMirrored(r) ==
    /\ rq[r].header = NoHeaders /\ rq[r].delivered = <<>> /\ rq[r].written = <<>>
    /\ rq[r].FileStatus \in {"missing", "noCaching"} /\ rq[r].fetched = 1
    /\ rq[r].pc \in {"cleanup", "done"}
    /\ rq[r].FileStatus = "missing" => ~ent[r].Started /\ ~HeadersWritten(r)

\* The request has fetched and the handler went on past the status test.
FetchSucceeded(r) ==
    rq[r].fetched = 1 /\ ~TransportFailed(r) /\ ~StatusFailed(r)

\* What does hold: the fetch counts as failed exactly when there is a
\* transport error or the status is not 200.
C19_Only200 ==
    \A r \in Reqs :
        /\ TransportFailed(r) => rq[r].status = 500 /\ NothingMirrored(r)
        /\ StatusFailed(r) =>
               rq[r].status \in UpstreamStatus \ {200} /\ NothingMirrored(r)
        /\ FetchSucceeded(r) => rq[r].header = Headers(rq[r].File)

\* C19: in the primary and the noCaching handler the fetch counts as failed
\* exactly when there is a transport error or the status is not 2xx: a
\* transport error gives the client 500, a non-2xx status is mirrored, in
\* both cases no upstream header is mirrored and no byte is written to the
\* cache file; every 2xx response is handled as a success.
C19_FetchFailure ==
    \A r \in Reqs :
        /\ TransportFailed(r) => rq[r].status = 500 /\ NothingMirrored(r)
        /\ StatusFailed(r) =>
               /\ rq[r].status \in UpstreamStatus /\ ~Is2xx(rq[r].status)
               /\ NothingMirrored(r)
        /\ FetchSucceeded(r) => rq[r].header = Headers(rq[r].File)

(***************************************************************************)
(* The two destinations of the primary's copy                              *)
(***************************************************************************)

\* The write to the cache file fails in this step of primary p: the body
\* has yielded a byte and the file has not taken it.
FileWriteFails(p) ==
    /\ Primary(p) /\ rq[p].pc = "copy"
    /\ rq'[p].nread = rq[p].nread + 1 /\ rq'[p].written = rq[p].written

\* The byte the body yields in this step of primary p.
NextByte(p) == Body(rq[p].File)[rq[p].nread + 1]

\* What the code does when the file fails: the copy ends there, and the
\* byte the file refused does not reach the client.
C20_FileFailureStops ==
    [][\A p \in Reqs :
          FileWriteFails(p) =>
              /\ rq'[p].pc = "cleanup" /\ rq'[p].err /\ rq'[p].log = "cachingFailed"
              /\ rq'[p].delivered = rq[p].delivered]_vars

C20_Step ==
    \A p \in Reqs :
        FileWriteFails(p) =>
            /\ rq'[p].pc = "copy"
            /\ ~rq'[p].pwErr => rq'[p].delivered = Append(rq[p].delivered, NextByte(p))

\* C20: in the primary's copy loop the failure of one destination does not
\* stop the delivery to the other: when a write to the cache file fails the
\* byte still goes to the client and the copy goes on, just as the copy
\* goes on and the byte goes to the file when the client fails.
C20_Isolated == [][C20_Step /\ C7_Step]_vars

(***************************************************************************)
(* The outcome a follower records                                          *)
(***************************************************************************)

\* A Seek, a read of the file or a write to the client has failed in the
\* loop of follower r.
LoopFailed(r) == Follower(r) /\ rq[r].err

\* What does hold: the follower whose loop failed has left the loop in the
\* step of the failure, and delivers nothing afterwards.
C21_LeavesAtOnce ==
    /\ [](\A r \in Reqs : LoopFailed(r) => rq[r].pc \in {"cleanup", "done"})
    /\ [][\A r \in Reqs : LoopFailed(r) => rq'[r].delivered = rq[r].delivered]_vars

\* C21: when a length query, a read of the entry's file or a write to the
\* client fails inside a follower's loop, the follower leaves the loop at
\* once and the outcome it records is the error outcome ("Error while
\* serving file in download"), never "File in download served".
C21_ErrorOutcome ==
    \A r \in Reqs :
        LoopFailed(r) =>
            /\ rq[r].pc \in {"cleanup", "done"}
            /\ rq[r].log = "inDownloadError"
            /\ rq[r].log # "inDownloadServed"

(***************************************************************************)
(* sharedState's mutex: handleRequest with Lock, the closure and Unlock of *)
(* each LockedDo as steps of their own, for the requests of one package    *)
(* and of database files.                                                  *)
(***************************************************************************)

\* Number of requests that go through LockedDo.
NLocked == 3

LockedReqs == 1..NLocked

\* Number of chunks a download streams.
StreamLen == 2

\* A mutex that has never unlocked: what Unlock would leave if it were missing.
UnlockNever(holder) == holder

\* defer c.mutex.Unlock(): the mutex has no holder.
Unlock(holder) == None

\* A request that has not arrived.
NoLockedReq == [pc |-> "idle", db |-> FALSE, FileStatus |-> "none", left |-> 0]

\* The mutex is unlocked, the map has no key for the package (RefCount 0),
\* the package is not in the cache directory.
LockedInit ==
    /\ ProxyUnused /\ hreq = Unused /\ writer = Unused /\ legacy = Unused
    /\ lockedDo = [mutex |-> None, RefCount |-> 0, cached |-> FALSE,
                   Started |-> FALSE, Complete |-> FALSE,
                   g |-> [r \in LockedReqs |-> NoLockedReq]]

LdAt(r, pc) == lockedDo.g[r].pc = pc

\* handler calls handleRequest, for the package or for a database file.
LdArrive(r) ==
    /\ LdAt(r, "idle")
    /\ \A q \in LockedReqs : q < r => ~LdAt(q, "idle")
    /\ \E db \in BOOLEAN :
          lockedDo' = [lockedDo EXCEPT !.g[r].pc = "lock", !.g[r].db = db]
    /\ UNCHANGED <<rq, cache, ent, fs, data, hreq, writer, legacy>>

\* c.mutex.Lock(), of the first LockedDo or of the deferred one: returns
\* once the mutex is unlocked, and locks it.
LdLock(r) ==
    /\ LdAt(r, "lock") \/ LdAt(r, "lockCleaner")
    /\ lockedDo.mutex = None
    /\ lockedDo' = [lockedDo EXCEPT !.mutex = r,
                                    !.g[r].pc = IF LdAt(r, "lock") THEN "classify" ELSE "cleaner"]
    /\ UNCHANGED <<rq, cache, ent, fs, data, hreq, writer, legacy>>

\* The status the first closure decides (OpenFile or Stat may fail: failed).
LdStatus(r, failed) ==
    CASE lockedDo.g[r].db -> "NoCaching"
      [] ~lockedDo.g[r].db /\ ~lockedDo.cached /\ lockedDo.RefCount > 0 -> "InDownload"
      [] ~lockedDo.g[r].db /\ ~lockedDo.cached /\ lockedDo.RefCount = 0 ->
             IF failed THEN "error" ELSE "Missing"
      [] OTHER -> IF failed THEN "error" ELSE "Cached"

\* f(c.cache) of the first LockedDo: Stat, the map lookup, RefCount++ or
\* the new entry; nothing in it waits for another request.
LdClassify(r) ==
    /\ LdAt(r, "classify")
    /\ \E failed \in BOOLEAN :
          LET st == LdStatus(r, failed)
          IN  lockedDo' = [lockedDo EXCEPT
                  !.g[r].FileStatus = st,
                  !.g[r].pc = "unlock",
                  !.RefCount = IF st \in {"InDownload", "Missing"} THEN @ + 1 ELSE @,
                  !.Started = IF st = "Missing" THEN FALSE ELSE @,
                  !.Complete = IF st = "Missing" THEN FALSE ELSE @]
    /\ UNCHANGED <<rq, cache, ent, fs, data, hreq, writer, legacy>>

\* Where handleRequest goes on after its first LockedDo has returned.
LdAfterFirst(st) ==
    CASE st = "error" -> "done"
      [] st \in {"NoCaching", "Missing"} -> "fetch"
      [] st = "InDownload" -> "waitStarted"
      [] OTHER -> "serve"

\* The deferred Unlock runs as LockedDo returns.
LdUnlock(r) ==
    /\ LdAt(r, "unlock") \/ LdAt(r, "unlockCleaner")
    /\ lockedDo' = [lockedDo EXCEPT
           !.mutex = Unlock(@),
           !.g[r].pc = IF LdAt(r, "unlock") THEN LdAfterFirst(lockedDo.g[r].FileStatus)
                       ELSE "done"]
    /\ UNCHANGED <<rq, cache, ent, fs, data, hreq, writer, legacy>>

\* The handler returns: the deferred LockedDo(cacheCleaner) runs when the
\* request has an entry.
LdReturn(r) ==
    IF lockedDo.g[r].FileStatus \in {"Missing", "InDownload"} THEN "lockCleaner" ELSE "done"

\* http.Get: the fetch fails and the handler returns, or it succeeds and
\* (for the primary) Started is closed.
LdFetch(r) ==
    /\ LdAt(r, "fetch")
    /\ \E ok \in BOOLEAN :
          lockedDo' = [lockedDo EXCEPT
              !.g[r].pc = IF ok THEN "stream" ELSE LdReturn(r),
              !.g[r].left = IF ok THEN StreamLen ELSE @,
              !.Started = @ \/ (ok /\ lockedDo.g[r].FileStatus = "Missing")]
    /\ UNCHANGED <<rq, cache, ent, fs, data, hreq, writer, legacy>>

\* io.Copy of the download: one chunk, the end (the primary renames the
\* file into the cache), or a failure.
LdStream(r) ==
    /\ LdAt(r, "stream")
    /\ \E fails \in BOOLEAN :
          lockedDo' =
              IF fails THEN [lockedDo EXCEPT !.g[r].pc = LdReturn(r)]
              ELSE IF lockedDo.g[r].left > 0 THEN [lockedDo EXCEPT !.g[r].left = @ - 1]
              ELSE [lockedDo EXCEPT !.g[r].pc = LdReturn(r),
                                    !.cached = @ \/ lockedDo.g[r].FileStatus = "Missing"]
    /\ UNCHANGED <<rq, cache, ent, fs, data, hreq, writer, legacy>>

\* <-req.CacheEntry.Started
LdWaitStarted(r) ==
    /\ LdAt(r, "waitStarted")
    /\ lockedDo.Started
    /\ lockedDo' = [lockedDo EXCEPT !.g[r].pc = "tail"]
    /\ UNCHANGED <<rq, cache, ent, fs, data, hreq, writer, legacy>>

\* The follower's loop ends: Complete is closed, or a round has failed.
LdTail(r) ==
    /\ LdAt(r, "tail")
    /\ \E fails \in BOOLEAN :
          /\ fails \/ lockedDo.Complete
          /\ lockedDo' = [lockedDo EXCEPT !.g[r].pc = LdReturn(r)]
    /\ UNCHANGED <<rq, cache, ent, fs, data, hreq, writer, legacy>>

\* fileHandlerCached
LdServe(r) ==
    /\ LdAt(r, "serve")
    /\ lockedDo' = [lockedDo EXCEPT !.g[r].pc = LdReturn(r)]
    /\ UNCHANGED <<rq, cache, ent, fs, data, hreq, writer, legacy>>

\* f(c.cache) of the deferred LockedDo, cacheCleaner: close(Complete) by
\* the primary, RefCount--, and at 0 Close, Remove and delete.
LdCleaner(r) ==
    /\ LdAt(r, "cleaner")
    /\ lockedDo' = [lockedDo EXCEPT
           !.Complete = @ \/ lockedDo.g[r].FileStatus = "Missing",
           !.RefCount = @ - 1,
           !.g[r].pc = "unlockCleaner"]
    /\ UNCHANGED <<rq, cache, ent, fs, data, hreq, writer, legacy>>

\* The steps of LockedDo: Lock, the closure, Unlock.
LdSection(r) == LdLock(r) \/ LdClassify(r) \/ LdCleaner(r) \/ LdUnlock(r)

\* The steps of the handlers: fetching, waiting, streaming.
LdHandler(r) == LdFetch(r) \/ LdStream(r) \/ LdWaitStarted(r) \/ LdTail(r) \/ LdServe(r)

LockedNext == \E r \in LockedReqs : LdArrive(r) \/ LdSection(r) \/ LdHandler(r)

LockedSpec == LockedInit /\ [][LockedNext]_vars

\* Only the steps of LockedDo are sure to happen: a download may take for
\* ever, a client may never arrive.
LockedFairSpec == LockedSpec /\ \A r \in LockedReqs : WF_vars(LdSection(r))

\* Request r holds the registry lock.
Holding(r) == lockedDo.mutex = r

\* Request r is about to fetch upstream, to wait for Started, Complete or
\* the timer, or to stream bytes.
InHandler(r) == lockedDo.g[r].pc \in {"fetch", "stream", "waitStarted", "tail", "serve"}

\* Request r waits for the registry lock.
AtLock(r) == lockedDo.g[r].pc \in {"lock", "lockCleaner"}

\* The holder of the lock is inside a closure or about to unlock.
C22_State ==
    \A r \in LockedReqs :
        Holding(r) => ~InHandler(r) /\ lockedDo.g[r].pc \in {"classify", "unlock", "cleaner", "unlockCleaner"}

\* An exclusive section is Lock, the closure, Unlock, one after the other:
\* the step of a holder is its closure, or the Unlock that releases the lock.
C22_Step ==
    \A r \in LockedReqs :
        Holding(r) /\ lockedDo'.g[r] # lockedDo.g[r] =>
            \/ lockedDo.g[r].pc \in {"classify", "cleaner"}
               /\ lockedDo'.g[r].pc \in {"unlock", "unlockCleaner"} /\ Holding(r)'
            \/ lockedDo.g[r].pc \in {"unlock", "unlockCleaner"} /\ lockedDo'.mutex = None

\* C22: no request holds the registry lock while it fetches upstream, waits
\* on Started, Complete or the timer, or streams bytes; every exclusive
\* section starts and ends without such a step in between; and a request
\* never waits on the registry lock for the duration of another request's
\* download: it gets the lock even when no download makes a step.
C22_NoBlocking ==
    /\ []C22_State
    /\ [][C22_Step]_vars
    /\ \A r \in LockedReqs : AtLock(r) ~> ~AtLock(r)

\* A request has taken the lock for its cleanup while another is in the
\* middle of its download.
C22_Witness ==
    \E r, q \in LockedReqs :
        /\ r # q
        /\ LdAt(q, "stream") /\ lockedDo.g[q].left < StreamLen
        /\ lockedDo.g[q].FileStatus = "Missing"
        /\ LdAt(r, "unlockCleaner") /\ Holding(r)

(***************************************************************************)
(* What a follower that joins in the middle of a download receives         *)
(***************************************************************************)

\* Follower r has passed <-Started.
InLoop(r) == Follower(r) /\ rq[r].pc \in {"loop", "cleanup", "done"}

\* The bytes of the file of follower r's entry, from offset 0 to the offset
\* of the entry's descriptor (the end of the file after a write of the
\* primary).
EntryBytes(r) ==
    SubSeq(data[ent[rq[r].CacheEntry].File], 1, ent[rq[r].CacheEntry].pos)

\* The headers reach the follower once Started is closed, and its loop ends
\* without an error only when Complete is closed.
C23_HeadersAndEnd ==
    \A r \in Reqs :
        /\ InLoop(r) => ent[rq[r].CacheEntry].Started /\ rq[r].header = ent[rq[r].CacheEntry].HTTPInfo
        /\ Follower(r) /\ rq[r].pc = "wait" => rq[r].header = NoHeaders /\ rq[r].delivered = <<>>
        /\ LeftOnComplete(r) => ent[rq[r].CacheEntry].Complete

\* Every round delivers the bytes the file has gained since the last one.
C23_Round ==
    \A r \in Reqs :
        Follower(r) /\ rq[r].pc = "loop" /\ rq'[r].pc # "loop" /\ ~rq'[r].err =>
            rq'[r].delivered = EntryBytes(r)

\* C23 (as stated): a follower that joins when the primary has written some
\* of the bytes receives the headers once Started is closed, then only the
\* bytes written after it joined, and ends when the primary completes.
C23_RemainingOnly ==
    /\ C23_HeadersAndEnd
    /\ \A r \in Reqs :
          LeftOnComplete(r) =>
              rq[r].delivered = SubSeq(PrimaryWritten(r), rq[r].joined + 1, Len(PrimaryWritten(r)))

\* C23 (amended): a follower that joins when the primary has written some
\* of the bytes receives the headers once Started is closed, then every
\* byte of the entry's file from offset 0 to the primary's position, those
\* written before it joined and the remaining ones as they are written, and
\* ends when the primary completes.
C23_WholeFile ==
    /\ [](C23_HeadersAndEnd
          /\ \A r \in Reqs :
                /\ Follower(r) => IsPrefix(rq[r].delivered, EntryBytes(r))
                /\ LeftOnComplete(r) => rq[r].delivered = EntryBytes(r))
    /\ [][C23_Round]_vars

\* A follower that joined when the primary had written one of the two bytes
\* has left on Complete with both.
C23_Witness ==
    \E r \in Reqs :
        /\ LeftOnComplete(r)
        /\ rq[r].joined = 1
        /\ Len(PrimaryWritten(r)) = BodyLen
        /\ rq[r].delivered = PrimaryWritten(r)
        /\ rq[r].header = Headers(rq[r].File)

(***************************************************************************)
(* The temporary file of a new entry                                       *)
(***************************************************************************)

\* The bytes in the file entry e has open.
FileBytes(e) == data[ent[e].File]

\* Entry e is created in this step.
NewEntry(e) == ~Created(e) /\ Created(e)'

\* The temporary path of name f is the final path of a name a client can ask for.
TempIsFinal(f) == \E g \in FileNames : GetCacheTempPathName(f) = GetCachePathName(g)

\* What does hold: the file of a new entry is empty, and holds the bytes of
\* its primary only until it is renamed, for the names whose temporary path
\* is no final path.
C24_FreshUnlessShared ==
    /\ [](\A e \in Reqs :
             LivePrimary(e) /\ ~Renamed(e) /\ ~TempIsFinal(rq[e].File) =>
                 FileBytes(e) = rq[e].written)
    /\ [][\A e \in Reqs :
             NewEntry(e) /\ ~TempIsFinal(rq'[e].File) => data'[ent'[e].File] = <<>>]_vars

\* C24: whenever a new entry is created for a key, the temporary file it
\* opens for append is empty (no temporary file of an earlier entry is left
\* behind, whatever downloads succeeded or failed before), so the bytes in
\* the entry's file are exactly the bytes written by the current primary.
C24_FreshTempFile ==
    \A e \in Reqs :
        LivePrimary(e) =>
            /\ rq[e].written = <<>> => FileBytes(e) = <<>>
            /\ FileBytes(e) = rq[e].written

(***************************************************************************)
(* The close of an entry's file                                            *)
(***************************************************************************)

\* Request r may still use the file of its entry: it has not returned from
\* its handler (the primary writes in "copy", a follower queries the length
\* and reads in "loop"), or its cleanup has not run.
MayUseFile(r) == rq[r].CacheEntry # None /\ rq[r].pc # "done"

\* The file of entry e is closed in this step.
Closes(e) == ~ent[e].closed /\ ent'[e].closed

\* The cleanup of request r runs in this step.
CleansUp(r) == rq[r].pc = "cleanup" /\ rq'[r].pc = "done"

\* Once the file of an entry is closed no request is left that writes to
\* it, queries its length or reads from it.
C25_State ==
    \A e \in Reqs :
        ent[e].closed =>
            /\ ent[e].RefCount = 0
            /\ \A r \in Reqs : rq[r].CacheEntry = e => ~MayUseFile(r)

\* The file is closed by the cleanup that takes RefCount from 1 to 0, and a
\* closed entry is never touched again (no second close).
C25_Step ==
    \A e \in Reqs :
        /\ Closes(e) =>
              /\ ent[e].RefCount = 1 /\ ent'[e].RefCount = 0
              /\ \E r \in Reqs : rq[r].CacheEntry = e /\ CleansUp(r)
        /\ (\E r \in Reqs : rq[r].CacheEntry = e /\ CleansUp(r)) /\ ent'[e].RefCount = 0 =>
              Closes(e)
        /\ ent[e].closed => ent'[e] = ent[e] /\ \A r \in Reqs : rq[r].CacheEntry = e => rq'[r] = rq[r]

\* C25: an entry's file is closed only by the cleanup that brings RefCount
\* to 0, and at most once; after the close no follower queries its length
\* or reads from it and the primary does not write to it, in any
\* interleaving of primary, followers and cleanups.
C25_ClosedLast == []C25_State /\ [][C25_Step]_vars

\* The file of an entry is closed after its primary, which wrote to it, and
\* a follower, which read from it, have both cleaned up.
C25_Witness ==
    \E e, r \in Reqs :
        /\ ent[e].closed
        /\ Follower(r) /\ rq[r].CacheEntry = e /\ rq[r].pc = "done"
        /\ rq[r].delivered # <<>>
        /\ rq[e].pc = "done" /\ rq[e].written # <<>>

====
